---- MODULE Spec2Model ----
(***************************************************************************)
(* Model of 404_crawler.py: the URL canonicaliser, the domain filter and   *)
(* the wave-structured crawl engine (Crawler.run / Crawler._visit_url).    *)
(*                                                                         *)
(* A URL string is a sequence of tokens.  A token is either one of the     *)
(* delimiter characters  : / ? # ;  or an atom, a run of letters and dots  *)
(* that contains no delimiter.  Every string operation of the source       *)
(* (find, split, startswith, lower, rstrip, concatenation) is computed on  *)
(* these sequences as the library computes it on characters.               *)
(***************************************************************************)
EXTENDS Integers, Sequences, FiniteSets, TLC

(* ------------------------------ bounds --------------------------------- *)

\* most repetitions of the "www." label in front of a generated host
MaxWww == 2

\* most "/" characters at the end of a generated path or query
MaxSlash == 2

\* most <a href> links on one fetched page
MaxLinks == 2

\* largest worker pool size (max_workers) a run is constructed with
MaxWorkers == 2

(* ------------------------------ strings -------------------------------- *)

Delims == {":", "/", "?", "#", ";"}

\* str.lower() on one atom
LowerTok(t) ==
  CASE t = "WWW." -> "www."
    [] t = "EXAMPLE.com" -> "example.com"
    [] t = "HTTPS" -> "https"
    [] OTHER -> t

\* the upper-case spelling of an atom that has one in the alphabet
UpperTok(t) ==
  CASE t = "www." -> "WWW."
    [] t = "example.com" -> "EXAMPLE.com"
    [] OTHER -> t

Lower(s) == [k \in 1..Len(s) |-> LowerTok(s[k])]

Upper(s) == [k \in 1..Len(s) |-> UpperTok(s[k])]

\* s[a:] of Python, with a counted from 1
From(s, a) == SubSeq(s, a, Len(s))

\* s[:b] of Python: the tokens before position b
Before(s, b) == SubSeq(s, 1, b - 1)

\* str.find restricted to a set of characters: the least position >= a of a
\* token of set D, or 0 when there is none
FindAny(s, D, a) ==
  LET hits == {k \in a..Len(s) : s[k] \in D}
  IN IF hits = {} THEN 0 ELSE CHOOSE k \in hits : \A j \in hits : k <= j

Find(s, t, a) == FindAny(s, {t}, a)

\* str.rfind: the greatest position of token t, or 0
RFind(s, t) ==
  LET hits == {k \in 1..Len(s) : s[k] = t}
  IN IF hits = {} THEN 0 ELSE CHOOSE k \in hits : \A j \in hits : k >= j

\* str.rstrip("/"): every trailing "/" is removed
RStripSlash(s) ==
  LET keep == {k \in 1..Len(s) : s[k] # "/"}
  IN IF keep = {} THEN <<>>
     ELSE Before(s, 1 + CHOOSE k \in keep : \A j \in keep : j <= k)

\* a local variable: expression e is evaluated once and body F sees its value
With(e, F(_)) == CHOOSE y \in {F(x) : x \in {e}} : TRUE

(* --------------------------- urllib.parse ------------------------------ *)

\* schemes of urllib.parse.uses_netloc / uses_params that the alphabet spells
UsesNetloc == {<<"https">>, <<"file">>}

UsesParams == {<<>>, <<"https">>}

\* urlsplit: the scheme is the text before the first ":" when that text has
\* scheme characters only; it is lower-cased
SplitScheme(url) ==
  With(Find(url, ":", 1), LAMBDA colon :
    IF colon > 1 /\ \A k \in 1..(colon - 1) : url[k] \notin Delims
      THEN [scheme |-> Lower(Before(url, colon)), rest |-> From(url, colon + 1)]
      ELSE [scheme |-> <<>>, rest |-> url])

\* urlsplit and _splitnetloc: after "//" the netloc runs to the first of / ? #
SplitNetloc(url) ==
  IF Len(url) >= 2 /\ url[1] = "/" /\ url[2] = "/"
    THEN With(FindAny(url, {"/", "?", "#"}, 3), LAMBDA delim :
           IF delim = 0
             THEN [netloc |-> From(url, 3), rest |-> <<>>]
             ELSE [netloc |-> SubSeq(url, 3, delim - 1),
                   rest |-> From(url, delim)])
    ELSE [netloc |-> <<>>, rest |-> url]

\* url.split(t, 1): the text before the first t and the text after it
SplitAt(url, t) ==
  With(Find(url, t, 1), LAMBDA i :
    IF i = 0
      THEN [head |-> url, tail |-> <<>>]
      ELSE [head |-> Before(url, i), tail |-> From(url, i + 1)])

\* urllib.parse._splitparams
SplitParams(url) ==
  With(RFind(url, "/"), LAMBDA slash :
    With(IF slash > 0 THEN Find(url, ";", slash) ELSE Find(url, ";", 1),
         LAMBDA i :
           IF i = 0
             THEN [path |-> url, params |-> <<>>]
             ELSE [path |-> Before(url, i), params |-> From(url, i + 1)]))

\* urllib.parse.urlparse (urlsplit, then the params split)
urlparse(url) ==
  With(SplitScheme(url), LAMBDA s1 :
    With(SplitNetloc(s1.rest), LAMBDA s2 :
      With(SplitAt(s2.rest, "#"), LAMBDA s3 :
        With(SplitAt(s3.head, "?"), LAMBDA s4 :
          With(IF s1.scheme \in UsesParams /\ Find(s4.head, ";", 1) > 0
                 THEN SplitParams(s4.head)
                 ELSE [path |-> s4.head, params |-> <<>>],
               LAMBDA s5 :
                 [scheme |-> s1.scheme, netloc |-> s2.netloc,
                  path |-> s5.path, params |-> s5.params,
                  query |-> s4.tail, fragment |-> s3.tail])))))

\* urlunsplit: "//" and the netloc are written when there is a netloc, or
\* when the scheme uses one and the path does not begin with "//"
WithNetloc(scheme, netloc, url) ==
  IF \/ netloc # <<>>
     \/ /\ scheme # <<>>
        /\ scheme \in UsesNetloc
        /\ ~(Len(url) >= 2 /\ url[1] = "/" /\ url[2] = "/")
    THEN <<"/", "/">> \o netloc \o
         (IF url # <<>> /\ url[1] # "/" THEN <<"/">> \o url ELSE url)
    ELSE url

\* urllib.parse.urlunparse (and urlunsplit) of a ParseResult
urlunparse(p) ==
  (IF p.scheme # <<>> THEN p.scheme \o <<":">> ELSE <<>>)
    \o WithNetloc(p.scheme, p.netloc,
                  IF p.params # <<>> THEN p.path \o <<";">> \o p.params
                  ELSE p.path)
    \o (IF p.query # <<>> THEN <<"?">> \o p.query ELSE <<>>)
    \o (IF p.fragment # <<>> THEN <<"#">> \o p.fragment ELSE <<>>)

(* --------------------------- canonicalize_url -------------------------- *)

\* lines 38-40: the lower-cased netloc without one leading "www."
StripWww(netloc) ==
  IF netloc # <<>> /\ LowerTok(netloc[1]) = "www."
    THEN Tail(Lower(netloc))
    ELSE Lower(netloc)

\* lines 35-54: canon, the URL put together again without "www." and fragment
Reassembled(url) ==
  With(urlparse(url), LAMBDA parsed :
    urlunparse([scheme |-> parsed.scheme,
                netloc |-> StripWww(parsed.netloc),
                path |-> parsed.path,
                params |-> parsed.params,
                query |-> parsed.query,
                fragment |-> <<>>]))

canonicalize_url(url) ==
  With(Reassembled(url), LAMBDA canon : RStripSlash(canon))

(* ------------------------------ inputs --------------------------------- *)

\* n copies of token t
Rep(t, n) == [k \in 1..n |-> t]

Schemes == {<<"https">>, <<"HTTPS">>, <<"file">>}

Hosts ==
  {Rep("www.", n) \o <<"example.com">> : n \in 0..MaxWww}
    \cup {<<"WWW.", "EXAMPLE.com">>, <<"sub.", "example.com">>,
          <<"other.org">>, <<>>}

Paths ==
  {<<>>, <<"/", "x", ";", "q">>, <<"/", "x", ";", "/">>}
    \cup {<<"/", "about">> \o Rep("/", n) : n \in 0..MaxSlash}
    \cup {Rep("/", n) : n \in 1..MaxSlash}

Queries ==
  {<<>>, <<"?">>} \cup {<<"?", "q">> \o Rep("/", n) : n \in 0..MaxSlash}
    \cup {<<"?", "/">>}

Fragments == {<<>>, <<"#", "team">>, <<"#", "/">>}

\* the URL string written scheme://host path ?query #fragment
URL(sc, h, p, q, f) == sc \o <<":", "/", "/">> \o h \o p \o q \o f

\* the URL strings handed to canonicalize_url
RawURLs ==
  {URL(sc, h, p, q, f) :
     sc \in Schemes, h \in Hosts, p \in Paths, q \in Queries,
     f \in Fragments}

\* spellings of host h that differ in case and in one leading "www."
HostVariants(h) ==
  IF h = <<>> THEN {h}
  ELSE {h, Upper(h), <<"www.">> \o h, <<"WWW.">> \o Upper(h)}

\* path p with and without one more trailing "/"
PathVariants(p) == {p, p \o <<"/">>}

\* fragment f, and a fragment where there was none
FragmentVariants(f) == IF f = <<>> THEN {f, <<"#", "team">>} ELSE {f}

\* the start_url arguments of the constructor
SeedHttps == <<"https", ":", "/", "/", "WWW.", "EXAMPLE.com", "/", "#", "team">>

SeedFile == <<"file", ":", "/", "/", "/", "page", "/">>

SeedURLs == {SeedHttps, SeedFile}

\* absolute URLs (urljoin results) that anchors of fetched pages resolve to
HrefAbout ==
  <<"https", ":", "/", "/", "www.", "example.com", "/", "about", "#", "team">>

HrefHome == <<"https", ":", "/", "/", "EXAMPLE.com", "/">>

HrefOther == <<"https", ":", "/", "/", "other.org", "/", "x">>

HrefWwwWww ==
  <<"https", ":", "/", "/", "www.", "www.", "example.com", "/", "x">>

\* the crawled sites: the hrefs their pages may contain and the status codes
\* their responses may carry
SiteWide == [hrefs |-> {HrefAbout, HrefWwwWww}, statuses |-> {200}]

SiteOffDomain == [hrefs |-> {HrefAbout, HrefOther}, statuses |-> {200, 404}]

SiteBackLink == [hrefs |-> {HrefAbout, HrefHome}, statuses |-> {200, 404}]

SiteOther == [hrefs |-> {HrefOther}, statuses |-> {200, 404}]

SiteHome == [hrefs |-> {HrefHome}, statuses |-> {200, 404}]

\* the crawls: the constructor's start_url and same_domain, and the site
Runs ==
  {[seed |-> SeedHttps, same_domain |-> TRUE, site |-> SiteWide],
   [seed |-> SeedHttps, same_domain |-> TRUE, site |-> SiteOffDomain],
   [seed |-> SeedHttps, same_domain |-> TRUE, site |-> SiteBackLink],
   [seed |-> SeedHttps, same_domain |-> FALSE, site |-> SiteOther],
   [seed |-> SeedFile, same_domain |-> TRUE, site |-> SiteHome],
   [seed |-> SeedFile, same_domain |-> FALSE, site |-> SiteHome]}

\* the anchor lists of a page: at most MaxLinks hrefs, in document order
Bodies(hrefs) == UNION {[1..n -> hrefs] : n \in 0..MaxLinks}

\* every href of the crawled sites
AllHrefs == UNION {r.site.hrefs : r \in Runs}

\* line 128 on every href: canon = canonicalize_url(abs_url), evaluated once
CanonOf == [h \in AllHrefs |-> canonicalize_url(h)]

\* lines 113-114 on every link _parse_links can return, evaluated once
LinkNetloc ==
  [l \in {CanonOf[h] : h \in AllHrefs} |->
     urlparse(canonicalize_url(l)).netloc]

(* ------------------------------- state --------------------------------- *)

VARIABLES
  start_url,    \* self.start_url
  same_domain,  \* self.same_domain
  max_workers,  \* self.max_workers
  base_domain,  \* self.base_domain
  visited,      \* self.visited
  queue,        \* self.queue, a FIFO queue
  all_links,    \* self.all_links, a list of <<url, status>>
  pc,           \* position of the thread executing run()
  futures,      \* the list futures of the current iteration of run()
  tasks,        \* every work item submitted to the executor, in order
  wave,         \* the number of the current iteration of the outer loop
  found,        \* the links _parse_links has returned so far
  skipped,      \* the URLs run() took from the queue and discarded (line 223)
  csv,          \* the rows _save_csv has written
  site,         \* the crawled site: its pages' hrefs and status codes
  pushed,       \* every queue.put of a task: the link and the task's wave
  calls         \* log of the direct calls of canonicalize_url and
                \* _is_same_domain: function, argument, result

vars == <<start_url, same_domain, max_workers, base_domain, visited, queue,
          all_links, pc, futures, tasks, wave, found, skipped, csv, site,
          pushed, calls>>

crawler == <<start_url, same_domain, max_workers, base_domain, site>>

(* ------------------------------ Crawler -------------------------------- *)

\* Crawler.__init__
Construct(seed, sd, mw) ==
  /\ start_url = canonicalize_url(seed)
  /\ same_domain = sd
  /\ max_workers = mw
  /\ base_domain = urlparse(start_url).netloc
  /\ visited = {}
  /\ queue = <<start_url>>
  /\ all_links = <<>>

\* mutant of _is_same_domain: the host only has to end with the base domain
_is_same_domain_suffix(url) ==
  With(canonicalize_url(url), LAMBDA canon :
    With(urlparse(canon), LAMBDA parsed :
      \/ parsed.netloc = base_domain
      \/ /\ parsed.netloc # <<>>
         /\ base_domain # <<>>
         /\ parsed.netloc[Len(parsed.netloc)] = base_domain[Len(base_domain)]))

\* Crawler._is_same_domain; for a link of the sites the netloc of lines
\* 113-114 is read from LinkNetloc, where it is computed the same way
_is_same_domain(url) ==
  IF url \in DOMAIN LinkNetloc
    THEN LinkNetloc[url] = base_domain
    ELSE With(canonicalize_url(url), LAMBDA canon :
           With(urlparse(canon), LAMBDA parsed : parsed.netloc = base_domain))

\* Crawler._parse_links: every href made absolute and canonicalised
_parse_links(body) == [k \in 1..Len(body) |-> CanonOf[body[k]]]

\* mutant of FilteredOut: no link is dropped
NeverFilteredOut(link) == FALSE

\* line 199: the link is dropped when filtering is on and the filter fails
FilteredOut(link) == same_domain /\ ~_is_same_domain(link)

\* mutant of NotYetVisited: the task puts the link without the check
PutUnchecked(link) == TRUE

\* line 203: the task's re-visit check before queue.put
NotYetVisited(link) == link \notin visited

\* mutant of AlreadyVisited: the engine claims whatever it takes from the queue
NeverVisited(url) == FALSE

\* line 222: the engine's check before it claims a URL
AlreadyVisited(url) == url \in visited

\* mutant of Claimed: the URL is submitted without being marked
ClaimedUnmarked(vis, url) == vis

\* line 226: self.visited.add(current_url)
Claimed(vis, url) == vis \cup {url}

\* mutant of NoFutures: the loop is left as soon as the queue is seen empty
QueueSeenEmpty(fs) == TRUE

\* line 233: no task was submitted in this iteration
NoFutures(fs) == fs = <<>>

\* mutant of AllCompleted: the wait ends with the first completed future
AnyCompleted(fs) == \E k \in 1..Len(fs) : tasks[fs[k]].state = "done"

\* mutant of AllCompleted: a future that raised ends the wait
AbortedByError(fs) ==
  \/ \E k \in 1..Len(fs) : tasks[fs[k]].result = "error"
  \/ \A k \in 1..Len(fs) : tasks[fs[k]].state = "done"

\* mutant of AllCompleted: the wait is for the first submitted future only
FirstCompleted(fs) == fs # <<>> /\ tasks[fs[1]].state = "done"

\* mutant of AllCompleted: the wait is for a completion that is never signalled
NeverCompleted(fs) == \A k \in 1..Len(fs) : tasks[fs[k]].state = "joined"

\* lines 237-238: as_completed has yielded every future of the batch
AllCompleted(fs) == \A k \in 1..Len(fs) : tasks[fs[k]].state = "done"

\* lines 150, 184: the record appended when the content was obtained
ResponseRecord(url, status) == <<url, status>>

\* mutant of ErrorRecord: a failure is recorded like a broken page
ErrorRecordAsStatus(url) == <<url, 404>>

\* lines 154, 189: the record appended when open() or requests.get raised
ErrorRecord(url) == <<url, 0>>

\* mutant of Recorded: a visit that raised leaves no record
RecordedOnSuccess(links, rec) ==
  IF rec[2] = 0 THEN links ELSE Append(links, rec)

\* mutant of Recorded: only broken links are recorded
RecordedWhenBroken(links, rec) ==
  IF rec[2] >= 400 THEN Append(links, rec) ELSE links

\* lines 150, 154, 184, 189: self.all_links.append(rec)
Recorded(links, rec) == Append(links, rec)

\* mutant of Extracts: links are taken from pages that are not broken only
ExtractsWhenOk(status, html) == html /\ status < 400

\* line 193: the links are parsed when the content type contains text/html
Extracts(status, html) == html

\* mutant of WorkerFree: a thread is started for every work item
AlwaysFree(running) == TRUE

\* line 213: the pool has a thread that is not executing a work item
WorkerFree(running) == Cardinality(running) < max_workers

\* work items a pool thread is executing
Running == {i \in 1..Len(tasks) : tasks[i].state \in {"fetch", "check", "put"}}

\* work items still waiting in the executor's work queue
Pending == {i \in 1..Len(tasks) : tasks[i].state = "pending"}

(* ------------------------------ run() ---------------------------------- *)

\* lines 218-230: one iteration of the inner loop that empties the queue
DrainOne ==
  /\ pc = "drain"
  /\ queue # <<>>
  /\ LET current_url == Head(queue)
     IN /\ queue' = Tail(queue)
        /\ IF AlreadyVisited(current_url)
             THEN /\ skipped' = skipped \cup {current_url}
                  /\ UNCHANGED <<visited, tasks, futures>>
             ELSE /\ visited' = Claimed(visited, current_url)
                  /\ tasks' = Append(tasks, [url |-> current_url,
                                             wave |-> wave,
                                             state |-> "pending",
                                             scheme |-> <<>>,
                                             result |-> "none",
                                             status |-> 0,
                                             html |-> FALSE,
                                             anchors |-> FALSE,
                                             extracted |-> FALSE,
                                             sublinks |-> <<>>,
                                             puts |-> 0])
                  /\ futures' = Append(futures, Len(tasks) + 1)
                  /\ UNCHANGED skipped
  /\ UNCHANGED <<crawler, pushed, all_links, pc, wave, found, csv, calls>>

\* lines 218, 233-234: the queue is seen empty; break when nothing was submitted
DrainEnd ==
  /\ pc = "drain"
  /\ queue = <<>>
  /\ pc' = IF NoFutures(futures) THEN "finished" ELSE "wait"
  /\ UNCHANGED <<crawler, pushed, visited, queue, all_links, futures, tasks, wave,
                 found, skipped, csv, calls>>

\* lines 237-238, 214-215: the batch has completed, the next iteration starts
WaitBatch ==
  /\ pc = "wait"
  /\ AllCompleted(futures)
  /\ pc' = "drain"
  /\ futures' = <<>>
  /\ wave' = wave + 1
  /\ UNCHANGED <<crawler, pushed, visited, queue, all_links, tasks, found, skipped,
                 csv, calls>>

\* lines 213, 240-250: the executor is shut down (its threads joined) and the
\* records are saved when there are any
Finish ==
  /\ pc = "finished"
  /\ Running = {} /\ Pending = {}
  /\ pc' = "end"
  /\ csv' = IF all_links # <<>> THEN all_links ELSE csv
  /\ UNCHANGED <<crawler, pushed, visited, queue, all_links, futures, tasks, wave,
                 found, skipped, calls>>

(* --------------------------- _visit_url -------------------------------- *)

\* after the sublinks loop has dealt with its current link
NextLink(t) ==
  IF Len(t.sublinks) > 1
    THEN [t EXCEPT !.sublinks = Tail(@), !.state = "check"]
    ELSE [t EXCEPT !.sublinks = <<>>, !.state = "done"]

\* a pool thread takes the oldest work item of the executor's queue and
\* _visit_url begins: parsed = urlparse(url) (line 138)
StartTask(i) ==
  /\ i \in Pending
  /\ \A j \in Pending : i <= j
  /\ WorkerFree(Running)
  /\ tasks' = [tasks EXCEPT ![i].state = "fetch",
                            ![i].scheme = urlparse(tasks[i].url).scheme]
  /\ UNCHANGED <<crawler, pushed, visited, queue, all_links, pc, futures, wave,
                 found, skipped, csv, calls>>

\* lines 151-155 and 186-190: open() or requests.get raises
VisitFails(i) ==
  /\ i \in 1..Len(tasks)
  /\ tasks[i].state = "fetch"
  /\ all_links' = Recorded(all_links, ErrorRecord(tasks[i].url))
  /\ tasks' = [tasks EXCEPT ![i].state = "done", ![i].result = "error"]
  /\ UNCHANGED <<crawler, pushed, visited, queue, pc, futures, wave, found, skipped,
                 csv, calls>>

\* lines 141-150, 166-184 and 193-195: the content is read or fetched, the
\* record appended and, for HTML, the links parsed
VisitResponds(i, status, html, body) ==
  /\ i \in 1..Len(tasks)
  /\ tasks[i].state = "fetch"
  /\ tasks[i].scheme = <<"file">> => status = 200 /\ html
  /\ all_links' = Recorded(all_links, ResponseRecord(tasks[i].url, status))
  /\ tasks' =
       With(IF Extracts(status, html) THEN _parse_links(body) ELSE <<>>,
            LAMBDA sublinks :
              [tasks EXCEPT ![i] =
                 [@ EXCEPT !.state = IF sublinks = <<>> THEN "done"
                                     ELSE "check",
                           !.result = "response",
                           !.status = status,
                           !.html = html,
                           !.anchors = body # <<>>,
                           !.extracted = sublinks # <<>>,
                           !.sublinks = sublinks]])
  /\ found' = found \cup {tasks'[i].sublinks[k] :
                             k \in 1..Len(tasks'[i].sublinks)}
  /\ UNCHANGED <<crawler, pushed, visited, queue, pc, futures, wave, skipped, csv,
                 calls>>

\* lines 197-203: the domain filter and the re-visit check on the next link
CheckLink(i) ==
  /\ i \in 1..Len(tasks)
  /\ tasks[i].state = "check"
  /\ LET link == Head(tasks[i].sublinks)
     IN tasks' = [tasks EXCEPT ![i] =
                   IF ~FilteredOut(link) /\ NotYetVisited(link)
                     THEN [@ EXCEPT !.state = "put"]
                     ELSE NextLink(@)]
  /\ UNCHANGED <<crawler, pushed, visited, queue, all_links, pc, futures, wave,
                 found, skipped, csv, calls>>

\* line 204: queue.put(link)
PutLink(i) ==
  /\ i \in 1..Len(tasks)
  /\ tasks[i].state = "put"
  /\ queue' = Append(queue, Head(tasks[i].sublinks))
  /\ pushed' = pushed \cup {[url |-> Head(tasks[i].sublinks),
                               wave |-> tasks[i].wave]}
  /\ tasks' = [tasks EXCEPT ![i] = NextLink([@ EXCEPT !.puts = @ + 1])]
  /\ UNCHANGED <<crawler, visited, all_links, pc, futures, wave, found,
                 skipped, csv, calls>>

(* ---------------------------- specification ---------------------------- *)

Init ==
  /\ \E r \in Runs, mw \in 1..MaxWorkers :
       /\ Construct(r.seed, r.same_domain, mw)
       /\ site = r.site
  /\ pc = "drain"
  /\ futures = <<>>
  /\ tasks = <<>>
  /\ wave = 1
  /\ found = {}
  /\ skipped = {}
  /\ csv = <<>>
  /\ pushed = {}
  /\ calls = <<>>

Next ==
  \/ DrainOne
  \/ DrainEnd
  \/ WaitBatch
  \/ Finish
  \/ \E i \in 1..Len(tasks) : StartTask(i)
  \/ \E i \in 1..Len(tasks) : VisitFails(i)
  \/ \E i \in 1..Len(tasks), status \in site.statuses, html \in BOOLEAN,
        body \in Bodies(site.hrefs) : VisitResponds(i, status, html, body)
  \/ \E i \in 1..Len(tasks) : CheckLink(i)
  \/ \E i \in 1..Len(tasks) : PutLink(i)

Spec == Init /\ [][Next]_vars

(* ------------------- direct calls of the pure functions ---------------- *)

\* canonicalize_url(URL(sc, h, p, q, f)) is called on a constructed crawler
CallCanonicalize(sc, h, p, q, f) ==
  /\ calls = <<>>
  /\ calls' = <<[fn |-> "canonicalize_url",
                 parts |-> <<sc, h, p, q, f>>,
                 arg |-> URL(sc, h, p, q, f),
                 ret |-> canonicalize_url(URL(sc, h, p, q, f))]>>
  /\ UNCHANGED <<crawler, pushed, visited, queue, all_links, pc, futures, tasks,
                 wave, found, skipped, csv>>

\* canonicalize_url is called on the result of the first call
CallOnResult ==
  /\ Len(calls) = 1
  /\ calls[1].fn = "canonicalize_url"
  /\ calls' = Append(calls, [fn |-> "canonicalize_url",
                             parts |-> <<>>,
                             arg |-> calls[1].ret,
                             ret |-> canonicalize_url(calls[1].ret)])
  /\ UNCHANGED <<crawler, pushed, visited, queue, all_links, pc, futures, tasks,
                 wave, found, skipped, csv>>

\* canonicalize_url is called on another spelling of the first argument
CallOnVariant ==
  /\ Len(calls) = 1
  /\ calls[1].fn = "canonicalize_url"
  /\ LET c == calls[1].parts
     IN \E h \in HostVariants(c[2]), p \in PathVariants(c[3]),
           f \in FragmentVariants(c[5]) :
          /\ <<h, p, f>> # <<c[2], c[3], c[5]>>
          /\ calls' = Append(calls,
                        [fn |-> "canonicalize_url",
                         parts |-> <<c[1], h, p, c[4], f>>,
                         arg |-> URL(c[1], h, p, c[4], f),
                         ret |-> canonicalize_url(URL(c[1], h, p, c[4], f))])
  /\ UNCHANGED <<crawler, pushed, visited, queue, all_links, pc, futures, tasks,
                 wave, found, skipped, csv>>

\* self._is_same_domain(URL(sc, h, p, q, f)) is called
CallIsSameDomain(sc, h, p, q, f) ==
  /\ calls = <<>>
  /\ calls' = <<[fn |-> "_is_same_domain",
                 parts |-> <<sc, h, p, q, f>>,
                 arg |-> URL(sc, h, p, q, f),
                 ret |-> _is_same_domain(URL(sc, h, p, q, f))]>>
  /\ UNCHANGED <<crawler, pushed, visited, queue, all_links, pc, futures, tasks,
                 wave, found, skipped, csv>>

\* a crawler is constructed and run() is not called
InitFn ==
  /\ \E seed \in SeedURLs : Construct(seed, TRUE, 1)
  /\ site = SiteHome
  /\ pc = "new"
  /\ futures = <<>>
  /\ tasks = <<>>
  /\ wave = 1
  /\ found = {}
  /\ skipped = {}
  /\ csv = <<>>
  /\ pushed = {}
  /\ calls = <<>>

NextFn ==
  \/ \E sc \in Schemes, h \in Hosts, p \in Paths, q \in Queries,
        f \in Fragments : CallCanonicalize(sc, h, p, q, f)
  \/ CallOnResult
  \/ CallOnVariant
  \/ \E sc \in Schemes, h \in Hosts, p \in Paths, q \in Queries,
        f \in Fragments : CallIsSameDomain(sc, h, p, q, f)

SpecFn == InitFn /\ [][NextFn]_vars

\* the steps of the thread that executes run()
Engine == DrainOne \/ DrainEnd \/ WaitBatch \/ Finish

\* the steps of the pool threads
Workers ==
  \E i \in 1..Len(tasks) :
    \/ StartTask(i)
    \/ VisitFails(i)
    \/ \E status \in site.statuses, html \in BOOLEAN,
         body \in Bodies(site.hrefs) :
         VisitResponds(i, status, html, body)
    \/ CheckLink(i)
    \/ PutLink(i)

\* the threads are scheduled and every fetch returns: the engine thread and
\* the pool threads each take a step they can take
LiveSpec == Init /\ [][Next]_vars /\ WF_vars(Engine) /\ WF_vars(Workers)

(* ------------------------------ properties ----------------------------- *)

\* positions in all_links of the records of url u
Records(u) == {k \in 1..Len(all_links) : all_links[k][1] = u}

\* work items whose URL is u
Dispatches(u) == {i \in 1..Len(tasks) : tasks[i].url = u}

\* run() has left its while-True loop
HasLeftLoop == pc \in {"finished", "end"}

\* the host of the canonical form of u
CanonicalHost(u) ==
  With(canonicalize_url(u), LAMBDA canon : urlparse(canon).netloc)

\* the tokens of string u
Tokens(u) == {u[k] : k \in 1..Len(u)}

ExampleHome == <<"https", ":", "/", "/", "example.com">>

ExampleAbout == <<"https", ":", "/", "/", "example.com", "/", "about">>

OtherX == <<"https", ":", "/", "/", "other.org", "/", "x">>

\* C1: no URL is submitted to the pool twice, and every URL the engine has
\* tried to claim, whether the attempt succeeded or was refused, has exactly
\* one work item.
C1_NoDuplicateDispatch ==
  /\ \A i, j \in 1..Len(tasks) : tasks[i].url = tasks[j].url => i = j
  /\ \A u \in visited \cup skipped : Cardinality(Dispatches(u)) = 1

\* a second attempt to claim a URL was refused while a task was executing
C1_Witness == skipped # {} /\ Running # {}

\* C2: once run() has left its loop, all_links holds exactly one record for
\* each visited URL and none for any other URL; a seed whose pages link only
\* to the about page ends with two visited URLs and two records.
C2_OneRecordPerVisited ==
  HasLeftLoop =>
    /\ \A u \in visited : Cardinality(Records(u)) = 1
    /\ \A k \in 1..Len(all_links) : all_links[k][1] \in visited
    /\ (start_url = ExampleHome /\ found = {ExampleAbout}) =>
         (visited = {ExampleHome, ExampleAbout} /\ Len(all_links) = 2)

\* the run of scenario 1 has ended
C2_Witness ==
  /\ pc = "end"
  /\ start_url = ExampleHome
  /\ found = {ExampleAbout}
  /\ Len(all_links) = 2

\* C3: when every enabled step is eventually taken, run() eventually leaves
\* its while-True loop.
C3_Termination == <>HasLeftLoop

\* the loop was left after three batches
C3_Witness == HasLeftLoop /\ wave >= 4

\* C4: once run() has left its loop, the seed and every link that was
\* extracted from a fetched HTML page and passes the domain filter (when it
\* is enabled) are visited and recorded.
C4_Completeness ==
  HasLeftLoop =>
    /\ start_url \in visited
    /\ Records(start_url) # {}
    /\ \A l \in found :
         (~same_domain \/ CanonicalHost(l) = base_domain) =>
           (l \in visited /\ Records(l) # {})

\* the loop was left after a page linked back to the already visited seed and
\* to another page
C4_Witness ==
  /\ HasLeftLoop
  /\ start_url \in found
  /\ Cardinality(visited) >= 2

C6_FailedVisit ==
  /\ \A i \in 1..Len(tasks) :
       tasks[i].result = "error" =>
         /\ tasks[i].state = "done"
         /\ tasks[i].puts = 0
         /\ \E k \in 1..Len(all_links) :
              /\ Records(tasks[i].url) = {k}
              /\ all_links[k] = <<tasks[i].url, 0>>
         /\ Dispatches(tasks[i].url) = {i}
  /\ (HasLeftLoop /\ tasks[1].result = "error") =>
       all_links = <<<<start_url, 0>>>>

\* a URL whose visit failed was taken from the queue again and discarded
C6_Witness ==
  /\ HasLeftLoop
  /\ \E i \in 1..Len(tasks) :
       tasks[i].result = "error" /\ tasks[i].url \in skipped

\* the seed's visit failed and the run has ended
C6_SeedWitness == pc = "end" /\ tasks[1].result = "error"

\* C7: canonicalize_url applied to one of its own results returns it
\* unchanged.
C7_Idempotent ==
  \A j \in 1..Len(calls) :
    (calls[j].fn = "canonicalize_url" /\ calls[j].parts = <<>>) =>
      calls[j].ret = calls[j].arg

\* C8: two URLs that differ only in the case of the host, one leading "www."
\* of the host, the presence of a fragment and one trailing "/" of the path
\* have the same canonical form.
C8_Equivalent ==
  (Len(calls) = 2 /\ calls[2].parts # <<>>) => calls[2].ret = calls[1].ret

\* C9: _is_same_domain is true exactly when the lower-cased host of the
\* candidate, without one leading "www.", equals the base domain; it rejects
\* sub.example.com and accepts www.example.com against example.com.
C9_DomainFilter ==
  \A j \in 1..Len(calls) :
    calls[j].fn = "_is_same_domain" =>
      LET h == Lower(calls[j].parts[2])
          host == IF h # <<>> /\ h[1] = "www." THEN Tail(h) ELSE h
      IN /\ calls[j].ret <=> (host = base_domain)
         /\ (h = <<"sub.", "example.com">> /\ base_domain = <<"example.com">>)
              => ~calls[j].ret
         /\ (h = <<"www.", "example.com">> /\ base_domain = <<"example.com">>)
              => calls[j].ret

\* a candidate on sub.example.com was rejected against example.com
C9_Witness ==
  /\ calls # <<>>
  /\ calls[1].fn = "_is_same_domain"
  /\ calls[1].parts[2] = <<"sub.", "example.com">>
  /\ base_domain = <<"example.com">>
  /\ ~calls[1].ret

\* C10: every task of an earlier iteration of the outer loop is done, so the
\* tasks that are not done all belong to the current iteration.
C10_WaveBarrier ==
  /\ \A i \in 1..Len(tasks) :
       /\ tasks[i].wave <= wave
       /\ tasks[i].wave < wave => tasks[i].state = "done"
  /\ \A i, j \in 1..Len(tasks) :
       (tasks[i].state # "done" /\ tasks[j].state # "done") =>
         tasks[i].wave = tasks[j].wave

\* two tasks of the second batch are in flight after the first batch
C10_Witness ==
  \E i, j \in 1..Len(tasks) :
    /\ i # j
    /\ tasks[i].wave = 2 /\ tasks[i].state \in {"fetch", "check", "put"}
    /\ tasks[j].wave = 2 /\ tasks[j].state # "done"

\* the link passes the domain filter, or filtering is off
PassesFilter(link) == ~same_domain \/ CanonicalHost(link) = base_domain

\* the sublinks loop of task i deals with its current link in this step
ChecksLink(i) == tasks[i].state = "check" /\ tasks'[i] # tasks[i]

\* every work item has run to its end
AllDone == \A i \in 1..Len(tasks) : tasks[i].state = "done"

\* the number of "/" at the end of string s
TrailingSlashes(s) == Len(s) - Len(RStripSlash(s))

\* C11: the URL of every work item but the seed's was put in the queue by a
\* task of an earlier wave than the one that claims and submits it.
C11_NextWaveDispatch ==
  \A i \in 1..Len(tasks) :
    tasks[i].url # start_url =>
      \E p \in pushed : p.url = tasks[i].url /\ p.wave < tasks[i].wave

\* C12 as stated: whenever the sublinks loop deals with a link that passes the
\* domain filter, the link is put in the queue, visited or not.
C12_PushUnconditional ==
  [][\A i \in 1..Len(tasks) :
       (ChecksLink(i) /\ PassesFilter(Head(tasks[i].sublinks))) =>
         tasks'[i].state = "put"]_vars

\* C12 amended: the sublinks loop goes on to put a link exactly when the link
\* passes the domain filter and is not in visited when the task tests it, and
\* the put appends that link to the queue.
C12_PushUnlessVisited ==
  [][\A i \in 1..Len(tasks) :
       /\ ChecksLink(i) =>
            (tasks'[i].state = "put" <=>
               /\ PassesFilter(Head(tasks[i].sublinks))
               /\ Head(tasks[i].sublinks) \notin visited)
       /\ (tasks[i].state = "put" /\ tasks'[i] # tasks[i]) =>
            queue' = Append(queue, Head(tasks[i].sublinks))]_vars

\* a page linked back to the seed, which passes the filter, and the seed was
\* never put in the queue
C12_Witness ==
  /\ HasLeftLoop
  /\ start_url \in found
  /\ PassesFilter(start_url)
  /\ \A p \in pushed : p.url # start_url
  /\ pushed # {}

\* C13: canonicalize_url returns the reassembled URL without one trailing "/"
\* when it ends in "/", and unchanged otherwise.
C13_AtMostOneSlash ==
  \A j \in 1..Len(calls) :
    calls[j].fn = "canonicalize_url" =>
      LET canon == Reassembled(calls[j].arg)
      IN calls[j].ret = IF TrailingSlashes(canon) >= 1
                          THEN Before(canon, Len(canon))
                          ELSE canon

\* C14: a visit that got a response has exactly one record, with the status
\* of the response, and has extracted links exactly when the content type was
\* text/html and the page had anchors, whatever the status; a visit that got
\* something else than HTML has put nothing.
C14_ExtractionAnyStatus ==
  \A i \in 1..Len(tasks) :
    tasks[i].result = "response" =>
      /\ tasks[i].status \in site.statuses
      /\ \E k \in 1..Len(all_links) :
           /\ Records(tasks[i].url) = {k}
           /\ all_links[k] = <<tasks[i].url, tasks[i].status>>
      /\ tasks[i].extracted <=> (tasks[i].html /\ tasks[i].anchors)
      /\ ~tasks[i].html => tasks[i].puts = 0
      /\ tasks[i].extracted =>
           \A k \in 1..Len(tasks[i].sublinks) : tasks[i].sublinks[k] \in found

\* an HTML page answered with status 404 has put a link, and another page
\* with anchors that was not HTML has put none
C14_Witness ==
  /\ \E i \in 1..Len(tasks) :
       tasks[i].status = 404 /\ tasks[i].html /\ tasks[i].puts > 0
  /\ \E i \in 1..Len(tasks) :
       /\ tasks[i].result = "response"
       /\ ~tasks[i].html /\ tasks[i].anchors /\ tasks[i].state = "done"

\* C15: once run() has left its loop the queue is empty and every work item
\* is done; no later step changes the queue, visited or all_links, and the
\* rows the sink gets are all_links.
C15_CleanCompletion ==
  [][HasLeftLoop =>
       /\ queue = <<>>
       /\ AllDone
       /\ UNCHANGED <<queue, visited, all_links>>
       /\ pc' = "end" => csv' = all_links]_vars

\* the sink got the records of a crawl of three waves
C15_Witness == pc = "end" /\ Len(csv) >= 2 /\ csv = all_links /\ wave >= 3

\* C16: at most max_workers work items are executing.
C16_ConcurrencyBound == Cardinality(Running) <= max_workers

\* every thread of the pool is executing and a submitted work item waits
C16_Witness == Cardinality(Running) = max_workers /\ Pending # {}

C18_VisitedEngineOwned ==
  [][/\ visited \subseteq visited'
     /\ visited' = {tasks'[i].url : i \in 1..Len(tasks')}
     /\ visited' # visited =>
          /\ pc = "drain"
          /\ Len(tasks') = Len(tasks) + 1
          /\ visited' = visited \cup {tasks'[Len(tasks')].url}
          /\ tasks'[Len(tasks')].state = "pending"]_vars

\* tasks have tested visited, and a URL was claimed while a task was running
C18_Witness ==
  /\ Cardinality(visited) >= 2
  /\ \E i \in 1..Len(tasks) : tasks[i].result = "response" /\ tasks[i].extracted
  /\ \E i \in 1..Len(tasks) :
       tasks[i].state = "pending" /\ Running # {}

\* C19: every URL in the queue is the canonical seed or a result of
\* canonicalize_url on an extracted link, and with same_domain enabled its
\* host is the base domain.
C19_FrontierContent ==
  \A k \in 1..Len(queue) :
    /\ queue[k] = start_url \/ queue[k] \in found
    /\ same_domain => urlparse(queue[k]).netloc = base_domain

\* C20: once run() has left its loop all_links is not empty and has a record
\* of the seed, and the rows written by the sink are all_links.
C20_SeedRecorded ==
  HasLeftLoop =>
    /\ all_links # <<>>
    /\ \E k \in 1..Len(all_links) : all_links[k][1] = start_url
    /\ pc = "end" => (csv # <<>> /\ csv = all_links)

\* the run has ended after the seed's visit raised, with the seed's record
C20_Witness ==
  /\ pc = "end"
  /\ tasks[1].url = start_url
  /\ tasks[1].result = "error"
  /\ csv = <<<<start_url, 0>>>>

====
